---- MODULE Spec2Model ----
(***************************************************************************)
(* The user-export pipeline of bookwyrm/models/bookwyrm_export_job.py.     *)
(*                                                                         *)
(* One BookwyrmExportJob row lives in the database.  Every Celery task     *)
(* loads its own in-memory instance of that row, changes it and saves some *)
(* of its fields back.  The tasks are start_export_task, json_export, the  *)
(* export_*_task social-graph tasks and trigger_books_jobs; the last one   *)
(* runs every AddBookToUserExportJob, notify_child_job_complete and the    *)
(* AddFileToTar job synchronously, on its own instance of the row.  One    *)
(* step of the model is one database or storage operation of one task.     *)
(***************************************************************************)
EXTENDS Naturals, Sequences, FiniteSets

\* Largest number of editions get_books_for_user returns for the user.
MaxEditions == 2

\* Largest number of times the dispatcher delivers trigger_books_jobs.
MaxDeliveries == 2

\* Largest number of statements that raise in one run of the pipeline.
MaxFaults == 1

VARIABLES
    useS3,       \* settings.USE_S3, fixed for the process
    nEd,         \* number of editions of the user
    deliveries,  \* number of deliveries of trigger_books_jobs
    db,          \* the persisted BookwyrmExportJob row
    children,    \* the persisted ChildJob rows, in creation order
    task,        \* start_export_task, json_export, export_*_task: pc and instance
    bw,          \* the deliveries of trigger_books_jobs: pc, instance, locals
    s3tmp,       \* the transient object exports/<task_id>/archive.json exists
    archive,     \* the archive in storage: its state and the document in it
    faults,      \* the failures that have been raised so far
    cancelAt,    \* when the job was stopped from the UI, if it was
    now,         \* the clock: the number of readings of timezone.now() so far
    images,      \* the user has an avatar; the editions that have a cover
    s3Paths      \* S3Tar names an entry by the whole key, not by its basename

vars == <<useS3, nEd, deliveries, db, children, task, bw, s3tmp, archive,
          faults, cancelAt, now, images, s3Paths>>

Workers == 1..MaxDeliveries

NULL == "null"

SocialTasks == {"saved_lists", "follows", "blocks", "goals"}
TaskNames == {"start", "json"} \cup SocialTasks

\* export_json: the top-level keys present, and the books array as the
\* sequence of the editions of its entries.  A null export_json has no key.
NullDoc == [keys |-> {}, books |-> <<>>, icon |-> <<>>]

----------------------------------------------------------------------------
\* URLs and paths are strings, written as sequences of characters.  The
\* names of the model are short: "h" is the scheme, "d" the domain, "i" the
\* media directory images, "x" and "t" the directories exports and
\* <task_id>, "a" the avatar, "c" followed by a digit the cover of an
\* edition, "j" the file archive.json.

Digits == <<"1", "2", "3", "4">>

DirChars(dir) ==
    IF dir = "images/" THEN <<"i", "/">>
    ELSE IF dir = "" THEN <<>>
    ELSE <<"x", "/", "t", "/">>

KindChars(kind) ==
    IF kind = "cover" THEN <<"c">>
    ELSE IF kind = "avatar" THEN <<"a">>
    ELSE <<"j">>

PathChars(dir, kind, e) ==
    DirChars(dir) \o KindChars(kind) \o (IF e = 0 THEN <<>> ELSE <<Digits[e]>>)

\* The absolute URL of a media file in to_activity(): https://domain/<name>
MediaUrl(name) == <<"h", ":", "/", "/", "d", "/">> \o name

\* The position of the first "/" of s at or after k, or Len(s) + 1.
FirstSlash(s, k) ==
    IF \E j \in k..Len(s) : s[j] = "/"
    THEN CHOOSE j \in k..Len(s) :
             s[j] = "/" /\ \A i \in k..(j - 1) : s[i] # "/"
    ELSE Len(s) + 1

\* urllib.parse.urlparse: the scheme before ":", the host after "//" up to
\* the next "/", and the path, which is the whole string when there is
\* neither.
urlparse(u) ==
    LET hasScheme == Len(u) >= 2 /\ u[1] = "h" /\ u[2] = ":"
        rest == IF hasScheme THEN SubSeq(u, 3, Len(u)) ELSE u
        hasNetloc == Len(rest) >= 2 /\ rest[1] = "/" /\ rest[2] = "/"
        cut == FirstSlash(rest, 3)
    IN [scheme |-> IF hasScheme THEN <<"h">> ELSE <<>>,
        netloc |-> IF hasNetloc THEN SubSeq(rest, 3, cut - 1) ELSE <<>>,
        path |-> IF hasNetloc THEN SubSeq(rest, cut, Len(rest)) ELSE rest]

\* urllib.parse.unquote: %20 becomes a space.
RECURSIVE unquote(_)
unquote(s) ==
    IF s = <<>> THEN <<>>
    ELSE IF Len(s) >= 3 /\ s[1] = "%" /\ s[2] = "2" /\ s[3] = "0"
         THEN <<" ">> \o unquote(SubSeq(s, 4, Len(s)))
    ELSE <<s[1]>> \o unquote(Tail(s))

\* url2relativepath(url): unquote(urlparse(url).path[1:])
url2relativepath(url) ==
    LET path == urlparse(url).path
    IN unquote(SubSeq(path, 2, Len(path)))


\* The fields of a BookwyrmExportJob row (models.Model fields).
JobFields == {"status", "complete", "export_json", "json_completed",
              "export_data_file", "export_data_s3", "updated_date"}

NewJob == [status |-> "pending", complete |-> FALSE, export_json |-> NullDoc,
           json_completed |-> FALSE, export_data_file |-> NULL,
           export_data_s3 |-> NULL, updated_date |-> 0]

\* An instance that no task holds any more.
NoJob == [status |-> "none", complete |-> FALSE, export_json |-> NullDoc,
          json_completed |-> FALSE, export_data_file |-> NULL,
          export_data_s3 |-> NULL, updated_date |-> 0]

\* Model.save(update_fields=fields): the named fields of the instance
\* replace the row's, the others are left as persisted.
Save(row, inst, fields) ==
    [f \in JobFields |-> IF f \in fields THEN inst[f] ELSE row[f]]

SaveAllOfUnflagged(row, inst) ==
    Save(row, [inst EXCEPT !.json_completed = FALSE], JobFields)

\* Model.save(): every field of the instance is written.
SaveAll(row, inst) == Save(row, inst, JobFields)

\* BookwyrmExportJob.objects.get(id=...): a new instance of the row.  Only
\* the fields the loading task goes on to read or save are kept distinct.
Load(row, fields) ==
    [f \in JobFields |-> IF f \in fields THEN row[f] ELSE NoJob[f]]

----------------------------------------------------------------------------
\* The Job base class (bookwyrm/models/job.py).

TerminalStatus == {"complete", "stopped", "failed"}

\* Job.complete_job: no-op on a terminal instance.
CompleteJob(inst) ==
    IF inst.complete THEN inst
    ELSE [inst EXCEPT !.status = "complete", !.complete = TRUE,
                      !.updated_date = now]

\* Job.stop_job(reason): no-op on a terminal instance.
StopJob(inst, reason) ==
    IF inst.complete THEN inst
    ELSE [inst EXCEPT !.status = IF reason = "failed" THEN "failed" ELSE "stopped",
                      !.complete = TRUE, !.updated_date = now]

\* Job.set_status(status)
SetStatus(inst, status) ==
    IF inst.complete \/ inst.status = status THEN inst
    ELSE IF status = "complete" THEN CompleteJob(inst)
    ELSE IF status = "stopped" THEN StopJob(inst, "stopped")
    ELSE IF status = "failed" THEN StopJob(inst, "failed")
    ELSE [inst EXCEPT !.status = status, !.updated_date = now]

\* What a status change of a job instance writes to its row: the status, the
\* complete flag and the time of the change, and nothing when it is a no-op.
SaveStatus(row, before, after) ==
    IF before = after THEN row
    ELSE Save(row, after, {"status", "complete", "updated_date"})

\* The clock after a status change: it was read unless the change is a no-op.
Tick(before, after) == IF before = after THEN now ELSE now + 1

\* The same operations on a ChildJob row, whose only instance is its owner's.
ChildTerminal(c) == c.status \in TerminalStatus

ChildSetStatus(c, status) ==
    IF ChildTerminal(c) THEN c ELSE [c EXCEPT !.status = status]

\* ParentJob.has_completed: every child job known to the database is terminal.
HasCompleted(rows) == \A k \in 1..Len(rows) : ChildTerminal(rows[k])

----------------------------------------------------------------------------
TarJobs == {k \in 1..Len(children) : children[k].kind = "tar"}
BookJobs == {k \in 1..Len(children) : children[k].kind = "book"}

\* A user without avatar whose editions have no cover.
NoImages == [avatar |-> FALSE, covers |-> {}]

\* No archive in storage: the state of the file, the document in its JSON
\* entry and the names of its entries.
NoArchive == [state |-> "none", doc |-> NullDoc, entries |-> {}]

IdleWorker == [pc |-> "idle", job |-> NoJob, i |-> 0, cur |-> 0, tar |-> 0,
               ret |-> <<>>, bytes |-> NullDoc]

\* The job has been created and start_export_task is queued.  The user has
\* no avatar and no covers here; InitImages below draws the images.
Init ==
    /\ useS3 \in BOOLEAN
    /\ nEd \in 0..MaxEditions
    /\ deliveries = 1
    /\ db = NewJob
    /\ children = <<>>
    /\ task = [t \in TaskNames |->
                 [pc |-> IF t = "start" THEN "queued" ELSE "idle", job |-> NoJob]]
    /\ bw = [w \in Workers |-> IdleWorker]
    /\ s3tmp = FALSE
    /\ archive = NoArchive
    /\ faults = {}
    /\ cancelAt = "none"
    /\ now = 1
    /\ images = NoImages
    /\ s3Paths = FALSE

----------------------------------------------------------------------------
\* A statement raises: the failure is recorded and control goes to the
\* handler, if there is one.
Raise(label, n) ==
    /\ Cardinality(faults) < MaxFaults
    /\ faults' = faults \cup {<<label, n>>}

----------------------------------------------------------------------------
\* start_export_task

\* The url of the icon in user.to_activity(): that of user.avatar
AvatarUrl == MediaUrl(PathChars("images/", "avatar", 0))

StartNeverSkips(row) == FALSE

\* if job.complete: return, on the row just loaded
StartSkips(row) == row.complete

StartLoad ==
    /\ task["start"].pc = "queued"
    /\ task' = [task EXCEPT !["start"] =
                  IF StartSkips(db) THEN [pc |-> "done", job |-> NoJob]
                  ELSE [pc |-> "snapshot",
                        job |-> Load(db, {"status", "complete"})]]
    /\ UNCHANGED <<images, s3Paths, useS3, nEd, deliveries, db, children, bw, s3tmp, archive,
                   faults, cancelAt, now>>

\* job.export_json = job.user.to_activity(); job.save(update_fields=[...])
StartSnapshot ==
    /\ task["start"].pc = "snapshot"
    /\ \/ /\ LET job == [task["start"].job EXCEPT
                           !.export_json =
                             [keys |-> {"user"}, books |-> <<>>,
                              icon |-> IF images.avatar THEN AvatarUrl
                                       ELSE <<>>]]
             IN /\ db' = Save(db, job, {"export_json"})
                /\ task' = [task EXCEPT !["start"] = [pc |-> "dispatch", job |-> job]]
          /\ UNCHANGED faults
       \/ \* the user cannot be serialised
          /\ task' = [task EXCEPT !["start"].pc = "fail"]
          /\ Raise("to_activity", 0)
          /\ UNCHANGED db
    /\ UNCHANGED <<images, s3Paths, useS3, nEd, deliveries, children, bw, s3tmp, archive,
                   cancelAt, now>>

\* json_export.delay(...)
StartDispatch ==
    /\ task["start"].pc = "dispatch"
    /\ \/ /\ task' = [task EXCEPT !["start"] = [pc |-> "done", job |-> NoJob],
                                  !["json"].pc = "queued"]
          /\ UNCHANGED faults
       \/ /\ task' = [task EXCEPT !["start"].pc = "fail"]
          /\ Raise("delay_json", 0)
    /\ UNCHANGED <<images, s3Paths, useS3, nEd, deliveries, db, children, bw, s3tmp, archive,
                   cancelAt, now>>

\* except Exception of start_export_task: job.set_status("failed")
StartFail ==
    /\ task["start"].pc = "fail"
    /\ LET old == task["start"].job
           job == SetStatus(old, "failed")
       IN /\ db' = SaveStatus(db, old, job)
          /\ now' = Tick(old, job)
    /\ task' = [task EXCEPT !["start"] = [pc |-> "done", job |-> NoJob]]
    /\ UNCHANGED <<images, s3Paths, useS3, nEd, deliveries, children, bw, s3tmp, archive,
                   faults, cancelAt>>

----------------------------------------------------------------------------
\* json_export

JsonLoad ==
    /\ task["json"].pc = "queued"
    /\ task' = [task EXCEPT !["json"] =
                  [pc |-> "active",
                   job |-> Load(db, {"status", "complete", "export_json"})]]
    /\ UNCHANGED <<images, s3Paths, useS3, nEd, deliveries, db, children, bw, s3tmp, archive,
                   faults, cancelAt, now>>

JsonLeavesPending == "pending"

\* The status json_export sets first: job.set_status("active")
JsonFirstStatus == "active"

JsonActive ==
    /\ task["json"].pc = "active"
    /\ LET old == task["json"].job
           job == SetStatus(old, JsonFirstStatus)
       IN /\ db' = IF job = old THEN db
                   ELSE Save(db, job, {"status", "updated_date"})
          /\ task' = [task EXCEPT !["json"] = [pc |-> "seed", job |-> job]]
          /\ now' = Tick(old, job)
    /\ UNCHANGED <<images, s3Paths, useS3, nEd, deliveries, children, bw, s3tmp, archive,
                   faults, cancelAt>>

\* if not job.export_json.get("icon"): job.export_json["icon"] = {}
\* else: the url of the icon is rewritten with url2relativepath
JsonIcon(icon) == IF icon = <<>> THEN <<>> ELSE url2relativepath(icon)

\* The icon, settings and books keys, and job.save(update_fields=[...])
JsonSeed ==
    /\ task["json"].pc = "seed"
    /\ \/ /\ LET old == task["json"].job
                 job == [old EXCEPT !.export_json =
                           [keys |-> old.export_json.keys
                                       \cup {"icon", "settings", "books"},
                            books |-> <<>>,
                            icon |-> JsonIcon(old.export_json.icon)]]
             IN /\ db' = Save(db, job, {"export_json"})
                /\ task' = [task EXCEPT !["json"] = [pc |-> "dispatch", job |-> job]]
          /\ UNCHANGED faults
       \/ \* reading the icon or a setting of the user raises
          /\ task' = [task EXCEPT !["json"].pc = "fail"]
          /\ Raise("seed", 0)
          /\ UNCHANGED db
    /\ UNCHANGED <<images, s3Paths, useS3, nEd, deliveries, children, bw, s3tmp, archive,
                   cancelAt, now>>

\* The social-graph tasks json_export dispatches.
Dispatched == {"saved_lists", "follows", "blocks"}

\* The .delay calls of json_export, in the order of the code.
DispatchOrder == <<"saved_lists", "follows", "blocks", "books">>

\* The first k calls succeed; when k < 4 the next one raises.
JsonDispatch ==
    /\ task["json"].pc = "dispatch"
    /\ \E k \in 0..Len(DispatchOrder) :
         LET sent == {DispatchOrder[j] : j \in 1..k}
         IN /\ task' = [t \in TaskNames |->
                          IF t = "json"
                          THEN IF k = Len(DispatchOrder)
                               THEN [pc |-> "done", job |-> NoJob]
                               ELSE [task[t] EXCEPT !.pc = "fail"]
                          ELSE IF t \in sent THEN [task[t] EXCEPT !.pc = "queued"]
                          ELSE task[t]]
            /\ bw' = [w \in Workers |->
                        IF "books" \in sent /\ w <= deliveries
                        THEN [bw[w] EXCEPT !.pc = "queued"] ELSE bw[w]]
            /\ IF k = Len(DispatchOrder) THEN UNCHANGED faults
               ELSE Raise("delay", k + 1)
    /\ UNCHANGED <<images, s3Paths, useS3, nEd, deliveries, db, children, s3tmp, archive,
                   cancelAt, now>>

\* except Exception of json_export: job.set_status("failed")
JsonFail ==
    /\ task["json"].pc = "fail"
    /\ LET old == task["json"].job
           job == SetStatus(old, "failed")
       IN /\ db' = SaveStatus(db, old, job)
          /\ now' = Tick(old, job)
    /\ task' = [task EXCEPT !["json"] = [pc |-> "done", job |-> NoJob]]
    /\ UNCHANGED <<images, s3Paths, useS3, nEd, deliveries, children, bw, s3tmp, archive,
                   faults, cancelAt>>

----------------------------------------------------------------------------
\* export_saved_lists_task, export_follows_task, export_blocks_task,
\* export_reading_goals_task: each loads the job, sets its key, saves.

SocialLoad(t) ==
    /\ t \in SocialTasks
    /\ task[t].pc = "queued"
    /\ task' = [task EXCEPT ![t] =
                  [pc |-> "save", job |-> Load(db, {"export_json"})]]
    /\ UNCHANGED <<images, s3Paths, useS3, nEd, deliveries, db, children, bw, s3tmp, archive,
                   faults, cancelAt, now>>

SocialSave(t) ==
    /\ t \in SocialTasks
    /\ task[t].pc = "save"
    /\ LET old == task[t].job
           job == [old EXCEPT !.export_json.keys = @ \cup {t}]
       IN \/ /\ db' = Save(db, job, {"export_json"})
             /\ UNCHANGED faults
          \/ \* a query of the task raises: it has no handler
             /\ Raise(t, 0)
             /\ UNCHANGED db
    /\ task' = [task EXCEPT ![t] = [pc |-> "done", job |-> NoJob]]
    /\ UNCHANGED <<images, s3Paths, useS3, nEd, deliveries, children, bw, s3tmp, archive,
                   cancelAt, now>>

----------------------------------------------------------------------------
\* trigger_books_jobs, delivery w.  The AddBookToUserExportJob it creates,
\* the notification each sends to the parent and the AddFileToTar job the
\* notification starts all run inside this task, on its instance bw[w].job.

\* Where control goes when notify_child_job_complete returns to the task:
\* after the zero-edition call the task ends, after a child's call the loop
\* goes on with the next edition.
Return(b) ==
    LET r == b.ret[Len(b.ret)]
    IN IF r = "loop" /\ b.i < nEd
       THEN [b EXCEPT !.pc = "create", !.i = b.i + 1, !.ret = <<>>]
       ELSE [IdleWorker EXCEPT !.pc = "done"]

BooksLoad(w) ==
    /\ bw[w].pc = "queued"
    /\ \/ /\ bw' = [bw EXCEPT ![w] =
                      IF nEd = 0
                      THEN [@ EXCEPT !.pc = "n_enter", !.ret = <<"zero">>,
                                     !.job = Load(db, JobFields)]
                      ELSE [@ EXCEPT !.pc = "create", !.i = 1,
                                     !.job = Load(db, JobFields)]]
          /\ UNCHANGED faults
       \/ \* get_books_for_user raises
          /\ bw' = [bw EXCEPT ![w] = [@ EXCEPT !.pc = "outer_fail",
                                                     !.job = Load(db, JobFields)]]
          /\ Raise("get_books", w)
       \/ \* BookwyrmExportJob.objects.get raises: the outer handler reads
          \* job.id, job is unbound, the handler raises and the task ends
          /\ bw' = [bw EXCEPT ![w] = [IdleWorker EXCEPT !.pc = "done"]]
          /\ Raise("load_job", w)
    /\ UNCHANGED <<images, s3Paths, useS3, nEd, deliveries, db, children, task, s3tmp, archive,
                   cancelAt, now>>

\* except Exception of trigger_books_jobs: job.set_status("failed")
BooksOuterFail(w) ==
    /\ bw[w].pc = "outer_fail"
    /\ LET old == bw[w].job
           job == SetStatus(old, "failed")
       IN /\ db' = SaveStatus(db, old, job)
          /\ now' = Tick(old, job)
    /\ bw' = [bw EXCEPT ![w] = [IdleWorker EXCEPT !.pc = "done"]]
    /\ UNCHANGED <<images, s3Paths, useS3, nEd, deliveries, children, task, s3tmp, archive,
                   faults, cancelAt>>

\* AddBookToUserExportJob.objects.create(edition=edition, parent_job=job).
\* When it raises, the handler of the loop reads edition_job: the name is
\* unbound in the first iteration, so the handler itself raises and control
\* goes to the outer handler; in a later iteration it is the child of the
\* iteration before, which gets set_status("failed"), and the loop goes on.
BooksCreate(w) ==
    /\ bw[w].pc = "create"
    /\ \/ /\ children' = Append(children,
                     [kind |-> "book", edition |-> bw[w].i, status |-> "pending"])
          /\ bw' = [bw EXCEPT ![w] = [@ EXCEPT !.pc = "gather",
                                               !.cur = Len(children) + 1]]
          /\ UNCHANGED faults
       \/ /\ Raise("create", bw[w].i)
          /\ IF bw[w].cur = 0
             THEN /\ bw' = [bw EXCEPT ![w] = [@ EXCEPT !.pc = "outer_fail"]]
                  /\ UNCHANGED children
             ELSE /\ children' = [children EXCEPT ![bw[w].cur] =
                                     ChildSetStatus(@, "failed")]
                  /\ bw' = [bw EXCEPT ![w] = Return([@ EXCEPT !.ret = <<"loop">>])]
    /\ UNCHANGED <<images, s3Paths, useS3, nEd, deliveries, db, task, s3tmp, archive,
                   cancelAt, now>>

\* AddBookToUserExportJob.start_job up to the save of export_json, or its
\* except branch when gathering raises.
BookGather(w) ==
    /\ bw[w].pc = "gather"
    /\ \/ /\ LET job == [bw[w].job EXCEPT
                           !.export_json.books = Append(@, bw[w].i)]
             IN /\ db' = Save(db, job, {"export_json"})
                /\ bw' = [bw EXCEPT ![w] = [@ EXCEPT !.pc = "child_complete",
                                                     !.job = job]]
          /\ UNCHANGED <<children, faults>>
       \/ /\ children' = [children EXCEPT ![bw[w].cur] = ChildSetStatus(@, "failed")]
          /\ bw' = [bw EXCEPT ![w] = Return([@ EXCEPT !.ret = <<"loop">>])]
          /\ Raise("gather", bw[w].i)
          /\ UNCHANGED db
    /\ UNCHANGED <<images, s3Paths, useS3, nEd, deliveries, task, s3tmp, archive, cancelAt, now>>

\* except Exception of AddBookToUserExportJob.start_job, entered from
\* self.complete_job(): self.set_status("failed") on the child, then the
\* loop of trigger_books_jobs goes on.
BookFail(w) ==
    /\ bw[w].pc = "child_fail"
    /\ children' = [children EXCEPT ![bw[w].cur] = ChildSetStatus(@, "failed")]
    /\ bw' = [bw EXCEPT ![w] = Return([@ EXCEPT !.ret = <<"loop">>])]
    /\ UNCHANGED <<images, s3Paths, useS3, nEd, deliveries, db, task, s3tmp, archive, faults,
                   cancelAt, now>>

\* self.complete_job() of the child: the child becomes complete and calls
\* parent_job.notify_child_job_complete().
BookComplete(w) ==
    /\ bw[w].pc = "child_complete"
    /\ children' = [children EXCEPT ![bw[w].cur] = ChildSetStatus(@, "complete")]
    /\ bw' = [bw EXCEPT ![w] = [@ EXCEPT !.pc = "n_enter", !.ret = <<"loop">>]]
    /\ UNCHANGED <<images, s3Paths, useS3, nEd, deliveries, db, task, s3tmp, archive, faults,
                   cancelAt, now>>

----------------------------------------------------------------------------
\* BookwyrmExportJob.notify_child_job_complete on the instance bw[w].job

NotifyAlwaysGoesOn(inst) == FALSE

\* if self.complete: return
NotifyReturnsAtOnce(inst) == inst.complete

\* The early return, or self.updated_date = timezone.now() and
\* self.save(update_fields=["updated_date"])
NotifyEnter(w) ==
    /\ bw[w].pc = "n_enter"
    /\ IF NotifyReturnsAtOnce(bw[w].job)
       THEN /\ bw' = [bw EXCEPT ![w] = Return(@)]
            /\ UNCHANGED <<db, now>>
       ELSE LET job == [bw[w].job EXCEPT !.updated_date = now]
            IN /\ db' = Save(db, job, {"updated_date"})
               /\ bw' = [bw EXCEPT ![w] = [@ EXCEPT !.pc = "n_check", !.job = job]]
               /\ now' = now + 1
    /\ UNCHANGED <<images, s3Paths, useS3, nEd, deliveries, children, task, s3tmp, archive,
                   faults, cancelAt>>

NotifyNeverCompletes(inst, rows) ==
    IF inst.complete \/ ~HasCompleted(rows) THEN "return"
    ELSE IF ~inst.json_completed THEN "n_flag"
    ELSE "return"

NotifyIgnoresChildren(inst, rows) ==
    IF inst.complete THEN "return"
    ELSE IF ~inst.json_completed THEN "n_flag"
    ELSE "n_complete"

\* What the call does after "if not self.complete and self.has_completed":
\* has_completed is a query, json_completed is read from the instance.
NotifyBranch(inst, rows) ==
    IF inst.complete \/ ~HasCompleted(rows) THEN "return"
    ELSE IF ~inst.json_completed THEN "n_flag"
    ELSE "n_complete"

NotifyCheck(w) ==
    /\ bw[w].pc = "n_check"
    /\ LET next == NotifyBranch(bw[w].job, children)
       IN bw' = [bw EXCEPT ![w] =
                   IF next = "return" THEN Return(@) ELSE [@ EXCEPT !.pc = next]]
    /\ UNCHANGED <<images, s3Paths, useS3, nEd, deliveries, db, children, task, s3tmp, archive,
                   faults, cancelAt, now>>

\* self.json_completed = True; self.save(update_fields=["json_completed"])
NotifyFlag(w) ==
    /\ bw[w].pc = "n_flag"
    /\ LET job == [bw[w].job EXCEPT !.json_completed = TRUE]
       IN /\ db' = Save(db, job, {"json_completed"})
          /\ bw' = [bw EXCEPT ![w] = [@ EXCEPT !.pc = "n_create_tar", !.job = job]]
    /\ UNCHANGED <<images, s3Paths, useS3, nEd, deliveries, children, task, s3tmp, archive,
                   faults, cancelAt, now>>

\* Where control goes when notify_child_job_complete raises to its caller:
\* to the outer handler of trigger_books_jobs from the zero-edition call, to
\* the handler of AddBookToUserExportJob.start_job from a book job's
\* complete_job, to the handler of AddFileToTar.start_job from the archive
\* job's complete_job.
NotifyRaises(b) ==
    IF Head(b.ret) = "zero" THEN [b EXCEPT !.pc = "outer_fail"]
    ELSE IF Head(b.ret) = "loop" THEN [b EXCEPT !.pc = "child_fail"]
    ELSE [b EXCEPT !.pc = "t_fail", !.ret = Tail(b.ret)]

\* AddFileToTar.objects.create(parent_job=self, parent_export_job=self).
\* When it raises, the handler reads tar_job, which is unbound: the handler
\* itself raises, before self.stop_job, and the call raises to its caller.
NotifyCreateTar(w) ==
    /\ bw[w].pc = "n_create_tar"
    /\ \/ /\ children' = Append(children,
                     [kind |-> "tar", edition |-> 0, status |-> "pending"])
          /\ bw' = [bw EXCEPT ![w] = [@ EXCEPT !.pc = "t_encode",
                                               !.tar = Len(children) + 1]]
          /\ UNCHANGED faults
       \/ /\ Raise("create_tar", w)
          /\ bw' = [bw EXCEPT ![w] = NotifyRaises(@)]
          /\ UNCHANGED children
    /\ UNCHANGED <<images, s3Paths, useS3, nEd, deliveries, db, task, s3tmp, archive,
                   cancelAt, now>>

\* else: self.complete_job()
NotifyComplete(w) ==
    /\ bw[w].pc = "n_complete"
    /\ LET old == bw[w].job
           job == CompleteJob(old)
       IN /\ db' = SaveStatus(db, old, job)
          /\ bw' = [bw EXCEPT ![w] = Return([@ EXCEPT !.job = job])]
          /\ now' = Tick(old, job)
    /\ UNCHANGED <<images, s3Paths, useS3, nEd, deliveries, children, task, s3tmp, archive,
                   faults, cancelAt>>

----------------------------------------------------------------------------
\* AddFileToTar.start_job, run by tar_job.start_job() inside the notification

ArchivePath == "tar.gz"

\* The name of an archive entry or of a storage object: its directory and
\* the file, which is the JSON document, the avatar or the cover of edition e.
Path(dir, kind, e) == [dir |-> dir, kind |-> kind, e |-> e]

\* The images of the export, by file: user.avatar if there is one, and
\* edition.cover of every edition of get_books_for_user that has one.
ImageFiles ==
    (IF images.avatar THEN {Path("", "avatar", 0)} ELSE {})
        \cup {Path("", "cover", e) : e \in images.covers \cap (1..nEd)}

\* BookwyrmTarFile.write_bytes(export_json_bytes): the fixed entry name.
\* BookwyrmTarFile.add_image(image, directory="images/"): directory + name.
LocalEntries ==
    {Path("", "archive.json", 0)}
        \cup {Path("images/", f.kind, f.e) : f \in ImageFiles}

\* The keys handed to s3_tar.add_file: exports/<task_id>/archive.json and
\* images/<name> of every image.
S3Keys ==
    {Path("exports/task_id/", "archive.json", 0)}
        \cup {Path("images/", f.kind, f.e) : f \in ImageFiles}

\* S3Tar.add_file(key) with no folder: the entry is named by the key, or by
\* the basename of the key at the root of the archive.
S3EntryName(key) == IF s3Paths THEN key ELSE Path("", key.kind, key.e)

S3Entries == {S3EntryName(k) : k \in S3Keys}

\* DjangoJSONEncoder().encode(export_job.export_json) and get_books_for_user:
\* the document is read from the instance here.
TarEncode(w) ==
    /\ bw[w].pc = "t_encode"
    /\ \/ /\ bw' = [bw EXCEPT ![w] =
                      [@ EXCEPT !.pc = IF useS3 THEN "t_s3_put" ELSE "t_file_write",
                                !.bytes = bw[w].job.export_json]]
          /\ UNCHANGED faults
       \/ /\ bw' = [bw EXCEPT ![w] = [@ EXCEPT !.pc = "t_fail"]]
          /\ Raise("encode", w)
    /\ UNCHANGED <<images, s3Paths, useS3, nEd, deliveries, db, children, task, s3tmp, archive,
                   cancelAt, now>>

\* S3Boto3Storage.save of the temporary JSON file, and the add_file calls
TarS3Put(w) ==
    /\ bw[w].pc = "t_s3_put"
    /\ \/ /\ s3tmp' = TRUE
          /\ bw' = [bw EXCEPT ![w] = [@ EXCEPT !.pc = "t_s3_tar"]]
          /\ UNCHANGED faults
       \/ /\ bw' = [bw EXCEPT ![w] = [@ EXCEPT !.pc = "t_fail"]]
          /\ Raise("s3_put", w)
          /\ UNCHANGED s3tmp
    /\ UNCHANGED <<images, s3Paths, useS3, nEd, deliveries, db, children, task, archive, cancelAt, now>>

\* s3_tar.tar()
TarS3Tar(w) ==
    /\ bw[w].pc = "t_s3_tar"
    /\ \/ /\ archive' = [state |-> "full", doc |-> bw[w].bytes,
                          entries |-> S3Entries]
          /\ bw' = [bw EXCEPT ![w] = [@ EXCEPT !.pc = "t_s3_save"]]
          /\ UNCHANGED faults
       \/ /\ bw' = [bw EXCEPT ![w] = [@ EXCEPT !.pc = "t_fail"]]
          /\ Raise("s3_tar", w)
          /\ UNCHANGED archive
    /\ UNCHANGED <<images, s3Paths, useS3, nEd, deliveries, db, children, task, s3tmp, cancelAt, now>>

\* export_job.export_data_s3 = s3_archive_path; export_job.save()
TarS3Save(w) ==
    /\ bw[w].pc = "t_s3_save"
    /\ LET job == [bw[w].job EXCEPT !.export_data_s3 = ArchivePath]
       IN /\ db' = SaveAll(db, job)
          /\ bw' = [bw EXCEPT ![w] = [@ EXCEPT !.pc = "t_s3_delete", !.job = job]]
    /\ UNCHANGED <<images, s3Paths, useS3, nEd, deliveries, children, task, s3tmp, archive,
                   faults, cancelAt, now>>

\* S3Boto3Storage.delete of the temporary JSON file
TarS3Delete(w) ==
    /\ bw[w].pc = "t_s3_delete"
    /\ \/ /\ s3tmp' = FALSE
          /\ bw' = [bw EXCEPT ![w] = [@ EXCEPT !.pc = "t_complete"]]
          /\ UNCHANGED faults
       \/ /\ bw' = [bw EXCEPT ![w] = [@ EXCEPT !.pc = "t_fail"]]
          /\ Raise("s3_delete", w)
          /\ UNCHANGED s3tmp
    /\ UNCHANGED <<images, s3Paths, useS3, nEd, deliveries, db, children, task, archive, cancelAt, now>>

\* export_job.export_data_file = ...; the tar file is opened and written.
\* A failure while writing leaves a partial file behind.
TarFileWrite(w) ==
    /\ bw[w].pc = "t_file_write"
    /\ LET job == [bw[w].job EXCEPT !.export_data_file = ArchivePath]
       IN \/ /\ archive' = [state |-> "full", doc |-> bw[w].bytes,
                             entries |-> LocalEntries]
             /\ bw' = [bw EXCEPT ![w] = [@ EXCEPT !.pc = "t_file_save", !.job = job]]
             /\ UNCHANGED faults
          \/ /\ archive' = [NoArchive EXCEPT !.state = "partial"]
             /\ bw' = [bw EXCEPT ![w] = [@ EXCEPT !.pc = "t_fail", !.job = job]]
             /\ Raise("file_write", w)
    /\ UNCHANGED <<images, s3Paths, useS3, nEd, deliveries, db, children, task, s3tmp, cancelAt, now>>

\* export_job.save() of the local branch
TarFileSave(w) ==
    /\ bw[w].pc = "t_file_save"
    /\ db' = SaveAll(db, bw[w].job)
    /\ bw' = [bw EXCEPT ![w] = [@ EXCEPT !.pc = "t_complete"]]
    /\ UNCHANGED <<images, s3Paths, useS3, nEd, deliveries, children, task, s3tmp, archive,
                   faults, cancelAt, now>>

\* self.complete_job() of the AddFileToTar job, which notifies the parent
TarComplete(w) ==
    /\ bw[w].pc = "t_complete"
    /\ children' = [children EXCEPT ![bw[w].tar] = ChildSetStatus(@, "complete")]
    /\ bw' = [bw EXCEPT ![w] = [@ EXCEPT !.pc = "n_enter", !.ret = <<"tar">> \o @]]
    /\ UNCHANGED <<images, s3Paths, useS3, nEd, deliveries, db, task, s3tmp, archive, faults,
                   cancelAt, now>>

\* except Exception: self.stop_job(reason="failed")
TarFail(w) ==
    /\ bw[w].pc = "t_fail"
    /\ children' = [children EXCEPT ![bw[w].tar] = ChildSetStatus(@, "failed")]
    /\ bw' = [bw EXCEPT ![w] = [@ EXCEPT !.pc = "t_fail_parent"]]
    /\ UNCHANGED <<images, s3Paths, useS3, nEd, deliveries, db, task, s3tmp, archive, faults,
                   cancelAt, now>>

\* The parent instance after self.parent_job.stop_job(reason="failed")
ParentLeftRunning(inst) == inst

ParentOnTarFailure(inst) == StopJob(inst, "failed")

TarFailParent(w) ==
    /\ bw[w].pc = "t_fail_parent"
    /\ LET old == bw[w].job
           job == ParentOnTarFailure(old)
       IN /\ db' = SaveStatus(db, old, job)
          /\ bw' = [bw EXCEPT ![w] = Return([@ EXCEPT !.job = job])]
          /\ now' = Tick(old, job)
    /\ UNCHANGED <<images, s3Paths, useS3, nEd, deliveries, children, task, s3tmp, archive,
                   faults, cancelAt>>

----------------------------------------------------------------------------
\* The job is stopped from the UI: stop_job() on a fresh instance of the row.

CancelPhase ==
    IF task["start"].pc = "queued" THEN "before_start"
    ELSE IF task["json"].pc = "queued" THEN "before_json"
    ELSE IF task["json"].pc = "done"
            /\ \A w \in Workers : bw[w].pc \in {"idle", "queued"}
         THEN "before_books"
    ELSE "running"

Cancel ==
    /\ cancelAt = "none"
    /\ ~db.complete
    /\ db' = SaveStatus(db, db, StopJob(db, "stopped"))
    /\ cancelAt' = CancelPhase
    /\ now' = now + 1
    /\ UNCHANGED <<images, s3Paths, useS3, nEd, deliveries, children, task, bw, s3tmp, archive,
                   faults>>

----------------------------------------------------------------------------
StartTask == StartLoad \/ StartSnapshot \/ StartDispatch \/ StartFail

JsonTask == JsonLoad \/ JsonActive \/ JsonSeed \/ JsonDispatch \/ JsonFail

SocialTask == \E t \in SocialTasks : SocialLoad(t) \/ SocialSave(t)

BooksTask ==
    \E w \in Workers :
        \/ BooksLoad(w) \/ BooksOuterFail(w) \/ BooksCreate(w)
        \/ BookGather(w) \/ BookComplete(w) \/ BookFail(w)
        \/ NotifyEnter(w) \/ NotifyCheck(w) \/ NotifyFlag(w)
        \/ NotifyCreateTar(w) \/ NotifyComplete(w)
        \/ TarEncode(w) \/ TarS3Put(w) \/ TarS3Tar(w) \/ TarS3Save(w)
        \/ TarS3Delete(w) \/ TarFileWrite(w) \/ TarFileSave(w)
        \/ TarComplete(w) \/ TarFail(w) \/ TarFailParent(w)

Step == StartTask \/ JsonTask \/ SocialTask \/ BooksTask

Next == Step \/ Cancel

\* Every task is delivered once; at most MaxFaults statements raise; the job
\* may be stopped from the UI at any moment.
Spec == Init /\ [][Next]_vars

\* The dispatcher delivers trigger_books_jobs up to MaxDeliveries times
\* (at-least-once delivery).  The deliveries start from the state json_export
\* and the social-graph tasks leave behind, and run concurrently.
SeededJob ==
    [NewJob EXCEPT !.status = "active", !.updated_date = 1,
                   !.export_json = [keys |-> {"user", "icon", "settings", "books"}
                                              \cup Dispatched,
                                    books |-> <<>>,
                                    icon |-> IF images.avatar
                                             THEN JsonIcon(AvatarUrl)
                                             ELSE <<>>]]

InitRedeliver ==
    /\ useS3 \in BOOLEAN
    /\ nEd \in 0..MaxEditions
    /\ deliveries \in 1..MaxDeliveries
    /\ images = NoImages
    /\ db = SeededJob
    /\ children = <<>>
    /\ task = [t \in TaskNames |->
                 [pc |-> IF t \in {"start", "json"} \cup Dispatched
                         THEN "done" ELSE "idle",
                  job |-> NoJob]]
    /\ bw = [w \in Workers |->
               IF w <= deliveries THEN [IdleWorker EXCEPT !.pc = "queued"]
               ELSE IdleWorker]
    /\ s3tmp = FALSE
    /\ archive = NoArchive
    /\ faults = {}
    /\ cancelAt = "none"
    /\ now = 2
    /\ s3Paths = FALSE

SpecRedeliver == InitRedeliver /\ [][BooksTask]_vars

\* The images of the user: trigger_books_jobs is delivered once, from the
\* same state, for every choice of avatar, of covers and of the way S3Tar
\* names its entries.
InitImages ==
    /\ useS3 \in BOOLEAN
    /\ nEd \in 0..MaxEditions
    /\ deliveries = 1
    /\ images \in [avatar : BOOLEAN, covers : SUBSET (1..nEd)]
    /\ db = SeededJob
    /\ children = <<>>
    /\ task = [t \in TaskNames |->
                 [pc |-> IF t \in {"start", "json"} \cup Dispatched
                         THEN "done" ELSE "idle",
                  job |-> NoJob]]
    /\ bw = [w \in Workers |->
               IF w = 1 THEN [IdleWorker EXCEPT !.pc = "queued"] ELSE IdleWorker]
    /\ s3tmp = FALSE
    /\ archive = NoArchive
    /\ faults = {}
    /\ cancelAt = "none"
    /\ now = 2
    /\ s3Paths \in BOOLEAN

SpecImages == InitImages /\ [][BooksTask]_vars

----------------------------------------------------------------------------
\* Properties

\* No task is queued or running.
Quiescent ==
    /\ \A t \in TaskNames : task[t].pc \in {"idle", "done"}
    /\ \A w \in Workers : bw[w].pc \in {"idle", "done"}

GatherFaults == {f \in faults : f[1] = "gather"}

TarFaults == {f \in faults :
                f[1] \in {"encode", "s3_put", "s3_tar", "s3_delete", "file_write"}}

\* The book jobs of edition e.
JobsOfEdition(e) == {k \in BookJobs : children[k].edition = e}

\* Every edition of the user has a book job and every book job is terminal.
AllBookJobsTerminal ==
    /\ \A e \in 1..nEd : JobsOfEdition(e) # {}
    /\ \A k \in BookJobs : ChildTerminal(children[k])

\* Some delivery has serialized export_json for the archive.
TarHasRead ==
    \/ archive.state = "full"
    \/ \E w \in Workers :
         bw[w].pc \in {"t_s3_put", "t_s3_tar", "t_s3_save", "t_s3_delete",
                       "t_file_write", "t_file_save", "t_complete"}

ArchiveLocationSet(row) ==
    row.export_data_file # NULL \/ row.export_data_s3 # NULL

\* C1: concurrent calls of notify_child_job_complete for one export job
\* create exactly one AddFileToTar job: never more than one, and exactly one
\* once every call has returned (no call having failed).
C1_ExactlyOneTarJob ==
    /\ Cardinality(TarJobs) <= 1
    /\ (Quiescent /\ faults = {}) => Cardinality(TarJobs) = 1

\* C2: with N >= 2 editions, no AddFileToTar job exists and nothing is
\* serialized for the archive until every edition has its book job and all
\* of them are terminal.
C2_TarWaitsForAllBookJobs ==
    (nEd >= 2 /\ (TarJobs # {} \/ TarHasRead)) => AllBookJobsTerminal

\* C3: when the archive builder has read export_json, every social-graph
\* task dispatched for the job has committed its key (so none commits
\* afterwards) and every book job is terminal.
C3_TarReadsAfterAllWriters ==
    TarHasRead =>
        /\ \A t \in Dispatched : task[t].pc = "done"
        /\ AllBookJobsTerminal

\* C4: when no book job fails and the root job is complete, the books array
\* in the archive has exactly N entries, one for each edition.
C4_ArchiveHasAllBooks ==
    (db.status = "complete" /\ GatherFaults = {}) =>
        /\ Len(archive.doc.books) = nEd
        /\ {archive.doc.books[k] : k \in 1..Len(archive.doc.books)} = 1..nEd

\* C5: for a user without editions no book job is created, and the pipeline
\* never stops short of complete: while a task is queued or running a step
\* is enabled, and when none is left (nothing having failed, no cancel) the
\* root job is complete.
C5_ZeroBooksCompletes ==
    nEd = 0 =>
        /\ BookJobs = {}
        /\ ~Quiescent => ENABLED Step
        /\ (Quiescent /\ faults = {} /\ cancelAt = "none") => db.status = "complete"

C5_Witness ==
    nEd = 0 /\ Quiescent /\ faults = {} /\ cancelAt = "none"
            /\ TarJobs # {} /\ db.status = "complete"

\* C6: when exactly one book job fails during gathering (and nothing else
\* fails, no cancel), then once the pipeline has run the failed job is
\* failed, the root job is complete and the archived books array has N-1
\* entries.
C6_OneFailureStillCompletes ==
    (Quiescent /\ Cardinality(GatherFaults) = 1 /\ faults = GatherFaults
               /\ cancelAt = "none") =>
        /\ \A f \in GatherFaults : \A k \in JobsOfEdition(f[2]) :
               children[k].status = "failed"
        /\ db.status = "complete"
        /\ Len(archive.doc.books) = nEd - 1

\* C7: a root job cancelled before start_export_task, before json_export or
\* before trigger_books_jobs never gets a child job and no archive is written.
C7_CancelledEarlyNoChildren ==
    cancelAt \in {"before_start", "before_json", "before_books"} =>
        /\ children = <<>>
        /\ archive.state = "none"

\* C8: a persisted root job with status complete has an archive location.
C8_CompleteHasArchive ==
    db.status = "complete" => ArchiveLocationSet(db)

\* C9: a persisted root job stopped with reason failed has no archive
\* location, under either backend.
C9_FailedHasNoArchive ==
    db.status = "failed" => ~ArchiveLocationSet(db)

\* C10: after a failure inside AddFileToTar.start_job the root job is never
\* complete, and once the except branch has run the AddFileToTar job and the
\* root job are both stopped with reason failed.
C10_TarFailureIsFatal ==
    TarFaults # {} =>
        /\ db.status # "complete"
        /\ (\A w \in Workers : bw[w].pc \notin {"t_fail", "t_fail_parent"}) =>
              /\ \A k \in TarJobs : children[k].status = "failed"
              /\ db.status = "failed" /\ db.complete

C10_Witness ==
    /\ TarFaults # {}
    /\ Quiescent
    /\ \E k \in TarJobs : children[k].status = "failed"
    /\ db.status = "failed"

\* The failures of the start phase: start_export_task and json_export.
StartFaults == {f \in faults : f[1] \in {"to_activity", "delay_json", "seed", "delay"}}

\* The except branch of the start phase has run, if it was entered.
StartHandled == task["start"].pc # "fail" /\ task["json"].pc # "fail"

\* C11: when start_export_task or json_export raises, no social-graph task
\* and no delivery of trigger_books_jobs has been dispatched, no child job
\* exists, and once the except branch has run the root job is terminal,
\* with status failed unless it was stopped from the UI.
C11_StartFailureNoFanOut ==
    StartFaults # {} =>
        /\ \A t \in SocialTasks : task[t].pc = "idle"
        /\ \A w \in Workers : bw[w].pc = "idle"
        /\ children = <<>>
        /\ StartHandled =>
              /\ db.complete
              /\ cancelAt = "none" => db.status = "failed"

\* The failures of the social-graph tasks.
SocialFaults == {f \in faults : f[1] \in SocialTasks}

\* C12: after a social-graph task has failed the root job is never
\* complete, and once no task is left (no cancel) it is stopped with reason
\* failed.
C12_SocialFailureIsFatal ==
    SocialFaults # {} =>
        /\ db.status # "complete"
        /\ (Quiescent /\ cancelAt = "none") => db.status = "failed"

\* The top-level keys the export document is to have besides the user's.
DocumentKeys == SocialTasks \cup {"books", "settings", "icon"}

\* C13: once json_export has returned without a failure every one of the
\* four social-graph tasks has been dispatched, and the persisted document
\* of a complete export, once no task is left, has the keys saved_lists,
\* follows, blocks, goals, books, settings and icon.
C13_AllFourDispatched ==
    /\ (task["json"].pc = "done" /\ StartFaults = {}) =>
          \A t \in SocialTasks : task[t].pc # "idle"
    /\ (Quiescent /\ db.status = "complete" /\ faults = {}) =>
          DocumentKeys \subseteq db.export_json.keys

\* The editions with an entry in the books array of document doc.
BooksIn(doc) == {doc.books[k] : k \in 1..Len(doc.books)}

\* C14: no committed write to export_json is lost: the key of every
\* social-graph task that has saved it and the entry of every book job that
\* has completed are in the persisted document, whatever was saved since
\* (in runs without failure or cancel).
C14_NoLostWrite ==
    (faults = {} /\ cancelAt = "none") =>
        /\ \A t \in SocialTasks :
              task[t].pc = "done" => t \in db.export_json.keys
        /\ \A k \in BookJobs :
              children[k].status = "complete" =>
                  children[k].edition \in BooksIn(db.export_json)

\* C15: once the persisted root job is terminal no step attaches a child
\* job to it and no step changes its export_json.
C15_TerminalIsClosed ==
    [][db.complete => /\ Len(children') = Len(children)
                      /\ db'.export_json = db.export_json]_vars

\* The archive location of a row: its two backend fields.
ArchiveLocation(row) == <<row.export_data_file, row.export_data_s3>>

\* C16: the persisted archive location is written at most once, into one of
\* the two backend fields and never both, and only when every edition of
\* the user has its book job and all book jobs are terminal.
C16_ArchiveLocationOnce ==
    [][ArchiveLocation(db') # ArchiveLocation(db) =>
          /\ ~ArchiveLocationSet(db)
          /\ db'.export_data_file = NULL \/ db'.export_data_s3 = NULL
          /\ AllBookJobsTerminal]_vars

\* Delivery w is at the first statement of notify_child_job_complete, called
\* on an instance that is terminal.
NotifyOnTerminal(w) == bw[w].pc = "n_enter" /\ bw[w].job.complete

\* C17: notify_child_job_complete called on a terminal parent instance
\* returns to its caller at once: the persisted row (status, updated_date,
\* json_completed, archive location), the child jobs and the archive are
\* unchanged, the clock is not read, nothing is raised and the instance is
\* as it was.
C17_NotifyOnTerminalIsNoOp ==
    [][\A w \in Workers :
         (NotifyOnTerminal(w) /\ bw'[w] # bw[w]) =>
             /\ db' = db /\ children' = children /\ archive' = archive
             /\ now' = now /\ faults' = faults
             /\ bw'[w].pc \in {"create", "done"}
             /\ bw'[w].pc = "create" => bw'[w].job = bw[w].job]_vars

C17_Witness ==
    \E w \in Workers :
        /\ NotifyOnTerminal(w)
        /\ db.status = "complete" /\ bw[w].i = 2
        /\ children[bw[w].cur].status = "complete"

\* Delivery w is about to run a notification of the parent, its
\* complete_job, or stop_job of the failure handler of AddFileToTar.
ParentStatusCall(w) == bw[w].pc \in {"n_enter", "n_complete", "t_fail_parent"}

\* C18: when a notification, its complete_job or stop_job of the archive
\* builder's failure handler reaches a parent that is already terminal in
\* the database, the persisted status and updated_date stay as they are.
C18_TerminalStatusKept ==
    [][\A w \in Workers :
         (ParentStatusCall(w) /\ db.complete /\ bw'[w] # bw[w]) =>
             /\ db'.status = db.status
             /\ db'.updated_date = db.updated_date]_vars

\* The failures of single books: gathering inside the child's start_job,
\* and creating the child inside the loop of trigger_books_jobs.
BookFaults == {f \in faults : f[1] \in {"gather", "create"}}

\* C19: when the only failure of a run is that of one book (no cancel),
\* the root job is not failed, no book job other than that of the failing
\* edition is failed, no edition gets a second job, and once no task is
\* left every other edition has its job.
C19_BookFailureIsIsolated ==
    (BookFaults # {} /\ faults = BookFaults /\ cancelAt = "none") =>
        /\ db.status # "failed"
        /\ \A k \in BookJobs :
              children[k].status = "failed" =>
                  <<"gather", children[k].edition>> \in faults
        /\ \A e \in 1..nEd : Cardinality(JobsOfEdition(e)) <= 1
        /\ Quiescent =>
              \A e \in 1..nEd :
                  <<"create", e>> \notin faults => JobsOfEdition(e) # {}

\* C20: for the same document, avatar and editions the archive composed on
\* S3 has the entries the local branch writes: the JSON document under
\* archive.json, each image of the export under images/, and nothing else;
\* the JSON entry of either branch holds the bytes encoded by the job.
C20_SameEntriesOnBothBackends ==
    archive.state = "full" =>
        /\ archive.entries = LocalEntries
        /\ \A w \in Workers : bw[w].pc \in {"t_s3_save", "t_file_save"} =>
                                  archive.doc = bw[w].bytes

\* The URL of the cover of edition e in edition.to_activity().
CoverUrl(e) == MediaUrl(PathChars("images/", "cover", e))

\* The name of an archive entry, written as a relative path.
EntryName(p) == PathChars(p.dir, p.kind, p.e)

\* The covers a document refers to: book["edition"]["cover"]["url"] of
\* every entry of its books array whose edition has a cover.
CoverRefs(doc) ==
    {url2relativepath(CoverUrl(e)) : e \in BooksIn(doc) \cap images.covers}

\* C21: every cover that an entry of the archived books array refers to by
\* relative path is an entry of the archive, under that path.
C21_ArchiveSelfContained ==
    archive.state = "full" =>
        \A ref \in CoverRefs(archive.doc) :
            \E p \in archive.entries : EntryName(p) = ref

----------------------------------------------------------------------------
\* A second invocation of AddFileToTar.start_job

\* start_job is called once more on an AddFileToTar job that is already
\* complete or failed, by a caller that loads the job and, through
\* self.parent_export_job, the parent row.  start_job tests no status: the
\* call runs the method from its first statement.
TarAgain(w) ==
    /\ bw[w].pc = "idle"
    /\ \A v \in Workers : bw[v].pc \in {"idle", "done"}
    /\ \E k \in TarJobs :
          /\ ChildTerminal(children[k])
          /\ bw' = [bw EXCEPT ![w] =
                      [IdleWorker EXCEPT !.pc = "t_encode", !.tar = k,
                                         !.ret = <<"again">>,
                                         !.job = Load(db, JobFields)]]
    /\ UNCHANGED <<images, s3Paths, useS3, nEd, deliveries, db, children, task,
                   s3tmp, archive, faults, cancelAt, now>>

TarRedelivery == \E w \in Workers : TarAgain(w)

\* One delivery of trigger_books_jobs, then a second invocation of the
\* archive builder for the AddFileToTar job it has left behind.
SpecRebuild == InitImages /\ [][BooksTask \/ TarRedelivery]_vars

\* Worker w runs the second invocation of the builder.
SecondInvocation(w) == bw[w].ret # <<>> /\ bw[w].ret[Len(bw[w].ret)] = "again"

\* C22: a step of a second invocation of the archive builder for an
\* AddFileToTar job that is already complete or failed writes no archive,
\* creates and deletes no storage object, and changes no job status and no
\* archive location.
C22_SecondBuildIsNoOp ==
    [][\A w \in Workers :
         (SecondInvocation(w) /\ bw'[w] # bw[w]) =>
             /\ archive' = archive
             /\ s3tmp' = s3tmp
             /\ children' = children
             /\ db'.status = db.status
             /\ ArchiveLocation(db') = ArchiveLocation(db)]_vars

\* C23: whenever the root job is complete, an AddFileToTar job exists and
\* is itself complete: no notification completes the root while the archive
\* job is not created yet or has not finished.
C23_CompleteOnlyAfterTar ==
    db.status = "complete" =>
        \E k \in TarJobs : children[k].status = "complete"

----------------------------------------------------------------------------
\* Two concurrent deliveries of trigger_books_jobs, followed up to the
\* creation of the AddFileToTar job: the book jobs and the notifications.

InitPair == InitRedeliver /\ deliveries = 2

NotifyStep ==
    \E w \in Workers :
        \/ BooksLoad(w) \/ BooksOuterFail(w) \/ BooksCreate(w)
        \/ BookGather(w) \/ BookComplete(w) \/ BookFail(w)
        \/ NotifyEnter(w) \/ NotifyCheck(w) \/ NotifyFlag(w)
        \/ NotifyCreateTar(w) \/ NotifyComplete(w)

SpecNotify == InitPair /\ [][NotifyStep]_vars

\* Worker w is inside notify_child_job_complete, before or at the test of
\* line 80, on an instance that is not terminal, while some known child job
\* is not terminal.
NotifyWithOpenChild(w) ==
    /\ bw[w].pc \in {"n_enter", "n_check"}
    /\ ~bw[w].job.complete
    /\ ~HasCompleted(children)

\* C24: a step of notify_child_job_complete on a non-terminal parent that
\* still has a non-terminal known child changes nothing of the row but
\* updated_date (json_completed, status, export_json and the archive
\* location stay as they are), creates no AddFileToTar job, and does not
\* go on to the aggregation branch.
C24_NotifyWithOpenChildOnlyTouches ==
    [][\A w \in Workers :
         (NotifyWithOpenChild(w) /\ bw'[w] # bw[w]) =>
             /\ db' = [db EXCEPT !.updated_date = db'.updated_date]
             /\ children' = children
             /\ archive' = archive
             /\ bw'[w].pc \notin {"n_flag", "n_create_tar", "n_complete"}]_vars

\* The call has saved updated_date and stands at the test of line 80 with
\* a non-terminal known child.
C24_Witness ==
    \E w \in Workers :
        /\ NotifyWithOpenChild(w)
        /\ bw[w].pc = "n_check"
        /\ db.updated_date = bw[w].job.updated_date

\* C25: when creating (or starting) the AddFileToTar job raises inside
\* notify_child_job_complete, the call does not raise to its caller, and
\* once the caller's task has ended the parent is failed (or was stopped
\* from the UI before).
C25_TarCreationFailureHandled ==
    \A w \in Workers :
        <<"create_tar", w>> \in faults =>
            /\ bw[w].pc \notin {"outer_fail", "child_fail"}
            /\ bw[w].pc = "done" =>
                  db.status = IF cancelAt = "none" THEN "failed" ELSE "stopped"

\* The positions of the persisted books array that hold edition e.
EntriesOf(e) ==
    {j \in 1..Len(db.export_json.books) : db.export_json.books[j] = e}

\* C26: every complete AddBookToUserExportJob has exactly one entry for its
\* edition in the persisted books array, and a failed one has none.
C26_BookJobMatchesEntry ==
    \A k \in BookJobs :
        /\ children[k].status = "complete" =>
              Cardinality(EntriesOf(children[k].edition)) = 1
        /\ children[k].status = "failed" =>
              EntriesOf(children[k].edition) = {}

\* C27: also when trigger_books_jobs is delivered more than once, no
\* edition has more than one AddBookToUserExportJob and no edition has
\* more than one entry in the persisted books array.
C27_OneJobPerEdition ==
    \A e \in 1..nEd :
        /\ Cardinality(JobsOfEdition(e)) <= 1
        /\ Cardinality(EntriesOf(e)) <= 1

\* C28: on S3 the transient JSON object exists while the archive is
\* composed and until the archive location is saved, and it is gone once
\* AddFileToTar.start_job has finished, the job complete or failed.
C28_TransientObjectRemoved ==
    /\ \A w \in Workers :
          bw[w].pc \in {"t_s3_tar", "t_s3_save", "t_s3_delete"} => s3tmp
    /\ \A w \in Workers :
          bw[w].pc = "t_s3_delete" => db.export_data_s3 # NULL
    /\ (\E k \in TarJobs : ChildTerminal(children[k])) => ~s3tmp

\* C29: when start_export_task finds the root job already terminal (it was
\* stopped before the task loaded it), export_json is not written, the
\* status stays as it is and json_export is not dispatched.
C29_StartSkipsTerminal ==
    cancelAt = "before_start" =>
        /\ task["start"].pc \in {"queued", "done"}
        /\ db.export_json = NullDoc
        /\ db.status = "stopped"
        /\ task["json"].pc = "idle"

\* The task has run on a job stopped before it.
C29_Witness ==
    cancelAt = "before_start" /\ task["start"].pc = "done"

\* C30: no reachable state leaves the root job non-terminal with no task
\* queued or running: every run that has come to rest has brought the job
\* to complete, failed or stopped.
C30_NoStrandedJob ==
    Quiescent => db.complete

\* C31: once the persisted root job is complete or stopped, no step changes
\* its persisted status or its complete flag back to a non-terminal value.
C31_TerminalIsAbsorbing ==
    [][(db.complete /\ db.status \in {"complete", "stopped"}) =>
           /\ db'.complete
           /\ db'.status \in TerminalStatus]_vars

\* C32: json_completed starts false; the only step that sets the persisted
\* value is the save of notify_child_job_complete (lines 82-83), taken when
\* every known child job is terminal; and once the persisted value is true
\* no step writes it back to false.
C32_JsonCompletedMonotonic ==
    /\ ~db.json_completed
    /\ [][/\ db.json_completed => db'.json_completed
          /\ (~db.json_completed /\ db'.json_completed) =>
                /\ HasCompleted(children)
                /\ \E w \in Workers : /\ bw[w].pc = "n_flag"
                                      /\ bw'[w].pc = "n_create_tar"]_vars

\* The archive builder has made its full-row save on a flagged job.
C32_Witness ==
    /\ db.json_completed
    /\ ArchiveLocationSet(db)
    /\ \E w \in Workers : bw[w].pc \in {"t_complete", "t_s3_delete"}

----------------------------------------------------------------------------
\* A second delivery of start_export_task and of json_export

\* The dispatcher delivers start_export_task and json_export once more
\* (at-least-once delivery) while trigger_books_jobs of the first delivery
\* is queued or running.  The duplicates are followed up to their save of
\* export_json.
InitReseed ==
    /\ useS3 \in BOOLEAN
    /\ nEd \in 0..MaxEditions
    /\ deliveries = 1
    /\ images \in [avatar : BOOLEAN, covers : {{}}]
    /\ db = SeededJob
    /\ children = <<>>
    /\ task = [t \in TaskNames |->
                 [pc |-> IF t \in {"start", "json"} THEN "queued"
                         ELSE IF t \in Dispatched THEN "done" ELSE "idle",
                  job |-> NoJob]]
    /\ bw = [w \in Workers |->
               IF w = 1 THEN [IdleWorker EXCEPT !.pc = "queued"] ELSE IdleWorker]
    /\ s3tmp = FALSE
    /\ archive = NoArchive
    /\ faults = {}
    /\ cancelAt = "none"
    /\ now = 2
    /\ s3Paths = FALSE

Reseed == StartLoad \/ StartSnapshot \/ JsonLoad \/ JsonActive \/ JsonSeed

SpecReseed == InitReseed /\ [][BooksTask \/ Reseed]_vars

\* C33: once a book entry is committed, no step of start_export_task or of
\* json_export, a duplicate delivery included, replaces the persisted
\* export_json or resets its books array.
C33_BooksNeverReset ==
    [][(db.export_json.books # <<>>
          /\ (task'["start"] # task["start"] \/ task'["json"] # task["json"])) =>
             db'.export_json = db.export_json]_vars

\* C34: when json_export runs again for the same job, the icon url it
\* saves is the one the first run has saved: url2relativepath leaves an
\* already relative path as it is.
C34_IconRewriteIdempotent ==
    [][(task["json"].pc = "seed" /\ task'["json"].pc = "dispatch") =>
           db'.export_json.icon = SeededJob.export_json.icon]_vars

\* The fan-out task failed as a whole before it created a child job.
FanOutFaults == {f \in faults : f[1] \in {"load_job", "get_books"}}

\* C35: when loading the job or computing the edition set raises in
\* trigger_books_jobs (and the job is not stopped from the UI), the task
\* ends with the root job failed, no AddFileToTar job is created and no
\* archive is written.
C35_FanOutFailureIsFatal ==
    (FanOutFaults # {} /\ cancelAt = "none") =>
        /\ TarJobs = {}
        /\ archive.state = "none"
        /\ \A w \in Workers :
              (\E f \in FanOutFaults : f[2] = w) /\ bw[w].pc = "done" =>
                  db.status = "failed"

\* Some fan-out has happened: a social-graph task or trigger_books_jobs
\* has been dispatched, or a child job exists.
FannedOut ==
    \/ \E t \in SocialTasks : task[t].pc # "idle"
    \/ \E w \in Workers : bw[w].pc # "idle"
    \/ children # <<>>

\* C36: whenever a social-graph task or the book fan-out task has been
\* dispatched, or a child job exists, the persisted status of the root job
\* is not pending any more.
C36_ActiveBeforeFanOut ==
    FannedOut => db.status # "pending"

\* The fan-out of an active root job is under way.
C36_Witness ==
    /\ db.status = "active"
    /\ task["saved_lists"].pc = "queued"
    /\ \E w \in Workers : bw[w].pc = "queued"

====
